---- MODULE Spec2Model ----
(***************************************************************************)
(* nonstd.sequence: OffsetList / OneIndexedList.                           *)
(*                                                                         *)
(* A client holds a container `s` (and, once it has copied it, the copy   *)
(* `t`) and calls methods one at a time.  Every call is one action: it     *)
(* records the call in `op`, the outcome (return value or exception) in    *)
(* `ret`, and the effect on the backing list in `heap`.  Python lists are  *)
(* 0-based; a list is modelled by a TLA+ sequence, Python position j being *)
(* element j + 1 of the sequence.                                          *)
(***************************************************************************)
EXTENDS Integers, Sequences, FiniteSets, TLC

VARIABLES s, t, heap, pc, op, ret

vars == <<s, t, heap, pc, op, ret>>

\* ------------------------------------------------------------------ bounds
\* Longest backing list the client builds.
MaxLen == 3
\* start_i ranges over -MaxStart .. MaxStart.
MaxStart == 2

\* The element values and the slice steps the client uses.
Val == {1, 2}
Steps == {-2, -1, 0, 1, 2}
Lists == UNION {[1..n -> Val] : n \in 0..MaxLen}
StartIs == (-MaxStart)..MaxStart
Idx == (-(MaxLen + 1))..(MaxStart + MaxLen)

\* ------------------------------------------------------- optional integers
\* Python's None and an int x, as the arguments of a slice or of index().
None == <<>>
Some(x) == <<x>>
int(o) == o[1]
OptIdx == {None} \cup {Some(i) : i \in Idx}
OptStep == {None} \cup {Some(c) : c \in Steps}

\* A subscript is an int or a slice (isinstance(index, slice)).
IntIndex(i) == [slice |-> FALSE, i |-> i]
IntIndexes == {IntIndex(i) : i \in Idx}
Slices == [slice : {TRUE}, start : OptIdx, stop : OptIdx, step : OptStep]

\* ------------------------------------------------------- outcomes of a call
\* exc = "none": the call returned val and left the backing list as data.
\* Otherwise the call raised exc; data is the backing list it leaves behind.
Return(val, data) == [exc |-> "none", val |-> val, data |-> data]
Raise(exc, data) == [exc |-> exc, val |-> <<>>, data |-> data]

\* ------------------------------------------------------ Python list, range
\* range(start, stop, step), step # 0, as the sequence of its members.
range(start, stop, step) ==
    LET n == IF step > 0
             THEN (IF start < stop THEN (stop - start - 1) \div step + 1 ELSE 0)
             ELSE (IF stop < start THEN (start - stop - 1) \div (-step) + 1 ELSE 0)
    IN  [j \in 1..n |-> start + (j - 1) * step]

\* slice.indices(length) for a slice with a non-zero step: <<start, stop, step>>.
slice_indices(sl, length) ==
    LET step == IF sl.step = None THEN 1 ELSE int(sl.step)
        lower == IF step < 0 THEN -1 ELSE 0
        upper == IF step < 0 THEN length - 1 ELSE length
        clip(o, dflt) ==
            IF o = None THEN dflt
            ELSE IF int(o) < 0
                 THEN (IF int(o) + length < lower THEN lower ELSE int(o) + length)
                 ELSE (IF int(o) > upper THEN upper ELSE int(o))
    IN  << clip(sl.start, IF step < 0 THEN upper ELSE lower),
           clip(sl.stop, IF step < 0 THEN lower ELSE upper),
           step >>

\* The 0-based positions a slice selects in a list of the given length.
slice_positions(sl, length) ==
    LET r == slice_indices(sl, length) IN range(r[1], r[2], r[3])

\* data[j] for an int j: negative j counts from the end.
list_getitem(data, j) ==
    LET p == IF j < 0 THEN j + Len(data) ELSE j
    IN  IF p < 0 \/ p >= Len(data)
        THEN Raise("IndexError", data)
        ELSE Return(data[p + 1], data)

\* data[sl] for a slice sl: a new list.
list_getslice(data, sl) ==
    IF sl.step = Some(0)
    THEN Raise("ValueError", data)
    ELSE LET pos == slice_positions(sl, Len(data))
         IN  Return([j \in 1..Len(pos) |-> data[pos[j] + 1]], data)

\* The elements of data at the 0-based positions that are not in drop.
without_positions(data, drop) ==
    LET keep == {j \in 0..(Len(data) - 1) : j \notin drop}
        nth(m) == CHOOSE x \in keep : Cardinality({y \in keep : y < x}) = m - 1
    IN  [m \in 1..Cardinality(keep) |-> data[nth(m) + 1]]

\* data[j] = value for an int j.
list_setitem(data, j, value) ==
    LET p == IF j < 0 THEN j + Len(data) ELSE j
    IN  IF p < 0 \/ p >= Len(data)
        THEN Raise("IndexError", data)
        ELSE Return(None, [data EXCEPT ![p + 1] = value])

\* del data[j] for an int j.
list_delitem(data, j) ==
    LET p == IF j < 0 THEN j + Len(data) ELSE j
    IN  IF p < 0 \/ p >= Len(data)
        THEN Raise("IndexError", data)
        ELSE Return(None, without_positions(data, {p}))

\* data[sl] = value for a slice sl and a list value: a slice of step 1 is
\* replaced by value whatever its length, an extended slice only by a value
\* of the same length.
list_setslice(data, sl, value) ==
    IF sl.step = Some(0)
    THEN Raise("ValueError", data)
    ELSE LET r == slice_indices(sl, Len(data))
             ilow == r[1]
             ihigh == IF r[2] < r[1] THEN r[1] ELSE r[2]
             pos == range(r[1], r[2], r[3])
         IN  IF r[3] = 1
             THEN Return(None, SubSeq(data, 1, ilow) \o value
                                 \o SubSeq(data, ihigh + 1, Len(data)))
             ELSE IF Len(value) # Len(pos)
                  THEN Raise("ValueError", data)
                  ELSE Return(None,
                         [m \in 1..Len(data) |->
                            IF \E j \in 1..Len(pos) : pos[j] + 1 = m
                            THEN value[CHOOSE j \in 1..Len(pos) : pos[j] + 1 = m]
                            ELSE data[m]])

\* del data[sl] for a slice sl.
list_delslice(data, sl) ==
    IF sl.step = Some(0)
    THEN Raise("ValueError", data)
    ELSE LET pos == slice_positions(sl, Len(data))
         IN  Return(None, without_positions(data, {pos[j] : j \in 1..Len(pos)}))

\* data.insert(j, value): j is clipped to 0..len(data), never an error.
list_insert(data, j, value) ==
    LET q == IF j < 0 THEN j + Len(data) ELSE j
        p == IF q < 0 THEN 0 ELSE IF q > Len(data) THEN Len(data) ELSE q
    IN  Return(None, SubSeq(data, 1, p) \o <<value>> \o SubSeq(data, p + 1, Len(data)))

\* data.pop(j): removes and returns data[j].
list_pop(data, j) ==
    LET p == IF j < 0 THEN j + Len(data) ELSE j
    IN  IF p < 0 \/ p >= Len(data)
        THEN Raise("IndexError", data)
        ELSE Return(data[p + 1], without_positions(data, {p}))

\* data.index(value, start, stop): the first position p of value with
\* start <= p < stop, negative bounds counting from the end.
list_index(data, value, start, stop) ==
    LET lo == IF start < 0 THEN (IF start + Len(data) < 0 THEN 0 ELSE start + Len(data))
              ELSE start
        hi0 == IF stop < 0 THEN (IF stop + Len(data) < 0 THEN 0 ELSE stop + Len(data))
               ELSE stop
        hi == IF hi0 > Len(data) THEN Len(data) ELSE hi0
        hits == {p \in lo..(hi - 1) : data[p + 1] = value}
    IN  IF hits = {}
        THEN Raise("ValueError", data)
        ELSE Return(CHOOSE p \in hits : \A q \in hits : p <= q, data)

\* data.append(value).
list_append(data, value) == Return(None, Append(data, value))

\* data.extend(other): the elements of other are appended in order.
list_extend(data, other) == Return(None, data \o other)

\* data.remove(value): deletes the first occurrence of value.
list_remove(data, value) ==
    LET hits == {p \in 0..(Len(data) - 1) : data[p + 1] = value}
    IN  IF hits = {}
        THEN Raise("ValueError", data)
        ELSE Return(None, without_positions(data,
                            {CHOOSE p \in hits : \A q \in hits : p <= q}))

\* data.sort(key=key, reverse=reverse) for a list of ints; key is "none"
\* (the elements themselves) or "negate" (lambda x: -x).  The sort is
\* stable, and elements with equal keys are equal ints.
list_sort(data, key, reverse) ==
    LET k(v) == IF key = "negate" THEN -v ELSE v
        before(x, y) == IF reverse THEN k(x) >= k(y) ELSE k(x) <= k(y)
        n == Len(data)
        elems == {data[j] : j \in 1..n}
        count(p, v) == Cardinality({j \in 1..n : p[j] = v})
    IN  Return(None,
               CHOOSE p \in [1..n -> elems] :
                   /\ \A v \in elems : count(p, v) = count(data, v)
                   /\ \A i \in 1..n, j \in 1..n : i < j => before(p[i], p[j]))

\* data.reverse().
list_reverse(data) ==
    Return(None, [j \in 1..Len(data) |-> data[Len(data) + 1 - j]])

\* data.clear().
list_clear(data) == Return(None, <<>>)

\* ------------------------------------------------------------- OffsetList
\* The default of the start_i parameter of OffsetList.__init__.
DefaultStartI == 1

\* OffsetList(initlist, start_i): a new object whose backing list is a new
\* list holding the elements of initlist.
OffsetList(initlist, start_i) ==
    [cls |-> "OffsetList", start_i |-> start_i, data |-> initlist]

\* OneIndexedList(initlist).
OneIndexedList(initlist) ==
    [OffsetList(initlist, 1) EXCEPT !.cls = "OneIndexedList"]

isinstance_OffsetList(other) == other.cls \in {"OffsetList", "OneIndexedList"}

\* UserList.__init__(initlist), called by OffsetList.__init__: the address
\* of self.data, initlist being the address of a list and new the address
\* of the list made by `self.data = []`, filled by `self.data[:] = initlist`.
\* The faulty variant keeps the caller's list (`self.data = initlist`).
UserList__init__keeps_initlist(initlist, new) == initlist

UserList__init__(initlist, new) == new

\* Faulty variants of _wrapped_integer_index: the offset is one short; a
\* negative index is shifted like any other; index 0 is let through.
_wrapped_integer_index_off_by_one(self, index) ==
    IF index = None
    THEN Return(None, <<>>)
    ELSE IF int(index) < 0
         THEN Return(index, <<>>)
         ELSE IF int(index) < self.start_i
              THEN Raise("IndexError", <<>>)
              ELSE Return(Some(int(index) - self.start_i + 1), <<>>)

_wrapped_integer_index_shift_negative(self, index) ==
    IF index = None
    THEN Return(None, <<>>)
    ELSE IF int(index) < self.start_i
         THEN Raise("IndexError", <<>>)
         ELSE Return(Some(int(index) - self.start_i), <<>>)

_wrapped_integer_index_zero_passes(self, index) ==
    IF index = None
    THEN Return(None, <<>>)
    ELSE IF int(index) <= 0
         THEN Return(index, <<>>)
         ELSE IF int(index) < self.start_i
              THEN Raise("IndexError", <<>>)
              ELSE Return(Some(int(index) - self.start_i), <<>>)

_wrapped_integer_index(self, index) ==
    IF index = None
    THEN Return(None, <<>>)
    ELSE IF int(index) < 0
         THEN Return(index, <<>>)
         ELSE IF int(index) < self.start_i
              THEN Raise("IndexError", <<>>)
              ELSE Return(Some(int(index) - self.start_i), <<>>)

_wrapped_slice_index(self, index) ==
    LET start == _wrapped_integer_index(self, index.start)
        stop == _wrapped_integer_index(self, index.stop)
    IN  IF start.exc # "none" THEN start
        ELSE IF stop.exc # "none" THEN stop
        ELSE Return([slice |-> TRUE, start |-> start.val, stop |-> stop.val,
                     step |-> index.step], <<>>)

_wrapped_index(self, index) ==
    IF index.slice
    THEN _wrapped_slice_index(self, index)
    ELSE _wrapped_integer_index(self, Some(index.i))

\* Faulty variant of __getitem__: the slice is built without start_i.
__getitem__default_start(self, data, index) ==
    LET wrapped_i == _wrapped_index(self, index)
    IN  IF wrapped_i.exc # "none"
        THEN Raise(wrapped_i.exc, data)
        ELSE IF index.slice
             THEN LET r == list_getslice(data, wrapped_i.val)
                  IN  IF r.exc # "none" THEN r
                      ELSE Return(OffsetList(r.val, DefaultStartI), data)
             ELSE list_getitem(data, int(wrapped_i.val))

\* self[index]
__getitem__(self, data, index) ==
    LET wrapped_i == _wrapped_index(self, index)
    IN  IF wrapped_i.exc # "none"
        THEN Raise(wrapped_i.exc, data)
        ELSE IF index.slice
             THEN LET r == list_getslice(data, wrapped_i.val)
                  IN  IF r.exc # "none" THEN r
                      ELSE Return(OffsetList(r.val, self.start_i), data)
             ELSE list_getitem(data, int(wrapped_i.val))

\* self[index] = value
__setitem__(self, data, index, value) ==
    LET wrapped_i == _wrapped_index(self, index)
    IN  IF wrapped_i.exc # "none"
        THEN Raise(wrapped_i.exc, data)
        ELSE IF index.slice
             THEN list_setslice(data, wrapped_i.val, value)
             ELSE list_setitem(data, int(wrapped_i.val), value)

\* del self[index]
__delitem__(self, data, index) ==
    LET wrapped_i == _wrapped_index(self, index)
    IN  IF wrapped_i.exc # "none"
        THEN Raise(wrapped_i.exc, data)
        ELSE IF index.slice
             THEN list_delslice(data, wrapped_i.val)
             ELSE list_delitem(data, int(wrapped_i.val))

\* Faulty variant of insert: the index is used as it is, not translated.
insert_untranslated(self, data, index, value) ==
    list_insert(data, index.i, value)

\* self.insert(index, value), index an int.
insert(self, data, index, value) ==
    LET wrapped_i == _wrapped_index(self, index)
    IN  IF wrapped_i.exc # "none"
        THEN Raise(wrapped_i.exc, data)
        ELSE list_insert(data, int(wrapped_i.val), value)

\* Faulty variant of pop: the test is `not index`, so that index 0 is
\* taken for a missing index.
pop_falsy_index(self, data, index) ==
    IF index = None \/ index = Some(0)
    THEN list_pop(data, -1)
    ELSE LET wrapped_i == _wrapped_index(self, IntIndex(int(index)))
         IN  IF wrapped_i.exc # "none"
             THEN Raise(wrapped_i.exc, data)
             ELSE list_pop(data, int(wrapped_i.val))

\* self.pop(index), index None or an int.
pop(self, data, index) ==
    IF index = None
    THEN list_pop(data, -1)
    ELSE LET wrapped_i == _wrapped_index(self, IntIndex(int(index)))
         IN  IF wrapped_i.exc # "none"
             THEN Raise(wrapped_i.exc, data)
             ELSE list_pop(data, int(wrapped_i.val))

\* self.index(value, start, stop), start and stop None or an int.
index(self, data, value, start, stop) ==
    LET start1 == IF start = None THEN self.start_i ELSE int(start)
        stop1 == IF stop = None THEN Len(data) + self.start_i ELSE int(stop)
        wrapped_start == _wrapped_index(self, IntIndex(start1))
        wrapped_stop == _wrapped_index(self, IntIndex(stop1))
    IN  IF wrapped_start.exc # "none" THEN Raise(wrapped_start.exc, data)
        ELSE IF wrapped_stop.exc # "none" THEN Raise(wrapped_stop.exc, data)
        ELSE LET wrapped_result == list_index(data, value, int(wrapped_start.val),
                                              int(wrapped_stop.val))
             IN  IF wrapped_result.exc # "none" THEN wrapped_result
                 ELSE Return(wrapped_result.val + self.start_i, data)

\* Faulty variants of __eq__: a list or tuple is compared element by
\* element instead of being refused; the offsets are not compared.
__eq__accepts_sequences(self, data, other) ==
    IF other.cls = "NoneType"
    THEN Return(FALSE, data)
    ELSE IF other.cls \in {"list", "tuple"}
         THEN Return(data = other.data, data)
         ELSE IF ~isinstance_OffsetList(other)
              THEN Raise("NotImplementedError", data)
              ELSE IF self.start_i # other.start_i
                   THEN Raise("NotImplementedError", data)
                   ELSE Return(data = other.data, data)

__eq__ignores_start_i(self, data, other) ==
    IF other.cls = "NoneType"
    THEN Return(FALSE, data)
    ELSE IF ~isinstance_OffsetList(other)
         THEN Raise("NotImplementedError", data)
         ELSE Return(data = other.data, data)

\* self == other
__eq__(self, data, other) ==
    IF other.cls = "NoneType"
    THEN Return(FALSE, data)
    ELSE IF ~isinstance_OffsetList(other)
         THEN Raise("NotImplementedError", data)
         ELSE IF self.start_i # other.start_i
              THEN Raise("NotImplementedError", data)
              ELSE Return(data = other.data, data)

\* Faulty variant of keys: the stop of the range is not shifted by start_i.
keys_stop_not_shifted(self, data) ==
    Return(range(self.start_i, Len(data), 1), data)

\* self.keys()
keys(self, data) ==
    Return(range(self.start_i, Len(data) + self.start_i, 1), data)

\* self.indices()
indices(self, data) == keys(self, data)

\* self.items(): [(key, self[key]) for key in self.keys()]
items(self, data) ==
    LET ks == keys(self, data).val
        got == [j \in 1..Len(ks) |-> __getitem__(self, data, IntIndex(ks[j]))]
        failed == {j \in 1..Len(ks) : got[j].exc # "none"}
    IN  IF failed # {}
        THEN Raise(got[CHOOSE j \in failed : \A m \in failed : j <= m].exc, data)
        ELSE Return([j \in 1..Len(ks) |-> <<ks[j], got[j].val>>], data)

\* self.append(value)
append(self, data, value) == list_append(data, value)

\* The mutators OffsetList inherits from UserList unchanged: each calls the
\* method of the same name on self.data.
extend(self, data, other) == list_extend(data, other)
remove(self, data, value) == list_remove(data, value)
sort(self, data, key, reverse) == list_sort(data, key, reverse)
reverse(self, data) == list_reverse(data)
clear(self, data) == list_clear(data)

\* self.copy(): UserList.copy is self.__class__(self), so the constructor
\* of the receiver's class is called with the receiver as its only argument.
copy(self, data) ==
    IF self.cls = "OneIndexedList"
    THEN Return(OneIndexedList(data), data)
    ELSE Return(OffsetList(data, DefaultStartI), data)

\* self + other: UserList.__add__ is self.__class__(self.data + ...), the
\* elements of other being other.data for a UserList, other for a list
\* and list(other) for any other iterable; the constructor of the
\* receiver's class is called with the new list as its only argument.
__add__(self, data, other) ==
    IF self.cls = "OneIndexedList"
    THEN Return(OneIndexedList(data \o other.data), data)
    ELSE Return(OffsetList(data \o other.data, DefaultStartI), data)

\* data * n for a list: n copies of data one after the other, none for
\* n <= 0.
RECURSIVE list_mul(_, _)
list_mul(data, n) == IF n <= 0 THEN <<>> ELSE data \o list_mul(data, n - 1)

\* self * n: UserList.__mul__ is self.__class__(self.data * n).
__mul__(self, data, n) ==
    IF self.cls = "OneIndexedList"
    THEN Return(OneIndexedList(list_mul(data, n)), data)
    ELSE Return(OffsetList(list_mul(data, n), DefaultStartI), data)

\* ------------------------------------------------------- FlexibleSequence
\* Values a FlexibleSequence is made from or compared with, besides the
\* containers above: a list or tuple of ints, an instance of a list
\* subclass that defines __call__, a function, an int, None, a dict.
list(d) == [cls |-> "list", data |-> d]
tuple(d) == [cls |-> "tuple", data |-> d]
CallableList(d) == [cls |-> "CallableList", data |-> d]
function(f) == [cls |-> "function", f |-> f]
pyint(v) == [cls |-> "int", val |-> v]
NoneType == [cls |-> "NoneType"]
dict(ks) == [cls |-> "dict", keys |-> ks]

\* The functions of the tests: lambda x: x**2 and lambda idx: idx + 1.
Funcs == {"square", "succ"}
apply(f, x) == IF f = "square" THEN x * x ELSE x + 1

\* Faulty variant of isinstance(x, Sequence): a FlexibleSequence is no
\* Sequence.
isinstance_Sequence_without_FlexibleSequence(x) ==
    x.cls \in {"list", "tuple", "CallableList", "OffsetList", "OneIndexedList"}

\* isinstance(x, Sequence) and isinstance(x, Callable).
isinstance_Sequence(x) ==
    x.cls \in {"list", "tuple", "CallableList", "OffsetList", "OneIndexedList",
               "FlexibleSequence"}
isinstance_Callable(x) == x.cls \in {"function", "CallableList"}

\* An element of a list is an int; the object x as an element is the int
\* itself when x is an int.
pyvalue(x) == IF x.cls = "int" THEN x.val ELSE x

\* self.length is an int n, held as Some(n), or math.inf.
inf == <<>>
isinf(length) == length = inf
isfinite(length) == length # inf
\* bool(length) for the length argument, None or an int.
truthy(length) == length # None /\ int(length) # 0
abs(x) == IF x < 0 THEN -x ELSE x

\* The outcome of a list comprehension whose j-th element has outcome
\* got[j]: the list of the values, or the first exception.
collect(got) ==
    LET failed == {j \in DOMAIN got : got[j].exc # "none"}
    IN  IF failed # {}
        THEN Raise(got[CHOOSE j \in failed : \A m \in failed : j <= m].exc, <<>>)
        ELSE Return([j \in DOMAIN got |-> got[j].val], <<>>)

\* The FlexibleSequence object with these attributes.
new(spec, definition, length, callable_start_i) ==
    [cls |-> "FlexibleSequence", wrapped |-> spec, definition |-> definition,
     length |-> length, c_start_i |-> callable_start_i]

RECURSIVE len(_), getitem(_, _), iter(_), holds_ints(_)
RECURSIVE FlexibleSequence__len__(_), FlexibleSequence__getitem__(_, _)
RECURSIVE FlexibleSequence__iter__(_), _get_int(_, _), _get_slice(_, _)

\* Faulty variant of the constructor for a Sequence spec: a spec whose
\* len() raises is wrapped without a length.
direct_without_len(spec, length, callable_start_i, n) ==
    IF n.exc # "none"
    THEN Return(new(spec, "DIRECT", inf, callable_start_i), <<>>)
    ELSE IF truthy(length) /\ n.val # int(length)
    THEN Raise("ValueError", <<>>)
    ELSE Return(new(spec, "DIRECT", Some(n.val), callable_start_i), <<>>)

\* The constructor for a Sequence spec, n being the outcome of len(spec):
\* len(spec) is taken at `length = len(self.wrapped)` if not already in
\* the test of the lengths, and an exception of it is the outcome.
direct(spec, length, callable_start_i, n) ==
    IF n.exc # "none"
    THEN Raise(n.exc, <<>>)
    ELSE IF truthy(length) /\ n.val # int(length)
    THEN Raise("ValueError", <<>>)
    ELSE Return(new(spec, "DIRECT", Some(n.val), callable_start_i), <<>>)

\* Faulty variant of the constructor: callable is tested before Sequence.
FlexibleSequence__init__callable_first(spec, length, callable_start_i) ==
    IF isinstance_Callable(spec)
    THEN Return(new(spec, "CALLABLE", IF length = None THEN inf ELSE length,
                    callable_start_i), <<>>)
    ELSE IF isinstance_Sequence(spec)
    THEN direct(spec, length, callable_start_i, len(spec))
    ELSE Return(new(spec, "CONSTANT", IF length = None THEN inf ELSE length,
                    callable_start_i), <<>>)

\* FlexibleSequence(spec, length, callable_start_i): the new object, or the
\* exception of the constructor.  length is None or an int.
FlexibleSequence__init__(spec, length, callable_start_i) ==
    IF isinstance_Sequence(spec)
    THEN direct(spec, length, callable_start_i, len(spec))
    ELSE IF isinstance_Callable(spec)
    THEN Return(new(spec, "CALLABLE", IF length = None THEN inf ELSE length,
                    callable_start_i), <<>>)
    ELSE Return(new(spec, "CONSTANT", IF length = None THEN inf ELSE length,
                    callable_start_i), <<>>)

\* Faulty variant of __len__: a length of 0 is taken for no length.
FlexibleSequence__len__falsy_length(self) ==
    IF self.definition = "DIRECT"
    THEN len(self.wrapped)
    ELSE IF truthy(self.length)
         THEN Return(int(self.length), <<>>)
         ELSE Raise("IndexError", <<>>)

\* len(self)
FlexibleSequence__len__(self) ==
    IF self.definition = "DIRECT"
    THEN len(self.wrapped)
    ELSE IF isfinite(self.length)
         THEN Return(int(self.length), <<>>)
         ELSE Raise("IndexError", <<>>)

\* len(x) for a sequence x.
len(x) ==
    IF x.cls = "FlexibleSequence"
    THEN FlexibleSequence__len__(x)
    ELSE Return(Len(x.data), <<>>)

\* The slice of a list or tuple x, r being the outcome of slicing its
\* elements: a slice of a tuple is a tuple, a slice of a list or of an
\* instance of a list subclass is a list.
of_type(x, r) ==
    IF r.exc # "none"
    THEN Raise(r.exc, <<>>)
    ELSE Return(IF x.cls = "tuple" THEN tuple(r.val) ELSE list(r.val), <<>>)

\* x[index] for a sequence x.
getitem(x, idx) ==
    IF x.cls = "FlexibleSequence"
    THEN FlexibleSequence__getitem__(x, idx)
    ELSE IF isinstance_OffsetList(x)
    THEN __getitem__(x, x.data, idx)
    ELSE IF idx.slice
    THEN of_type(x, list_getslice(x.data, idx))
    ELSE list_getitem(x.data, idx.i)

\* Faulty variant of _get_int: callable_start_i is left out.
_get_int_without_c_start_i(self, idx) ==
    IF self.definition = "CONSTANT"
    THEN Return(pyvalue(self.wrapped), <<>>)
    ELSE IF self.definition = "DIRECT"
    THEN getitem(self.wrapped, IntIndex(idx))
    ELSE IF idx < 0 /\ isinf(self.length)
    THEN Raise("NotImplementedError", <<>>)
    ELSE Return(apply(self.wrapped.f,
                      IF idx < 0 THEN int(self.length) + idx ELSE idx), <<>>)

\* Faulty variant of _get_int: a negative index of a sequence without a
\* length is passed on to the callable.
_get_int_negative_passed_on(self, idx) ==
    IF self.definition = "CONSTANT"
    THEN Return(pyvalue(self.wrapped), <<>>)
    ELSE IF self.definition = "DIRECT"
    THEN getitem(self.wrapped, IntIndex(idx))
    ELSE Return(apply(self.wrapped.f,
                      self.c_start_i
                        + (IF idx < 0 /\ isfinite(self.length)
                           THEN int(self.length) + idx ELSE idx)), <<>>)

\* self._get_int(index)
_get_int(self, idx) ==
    IF self.definition = "CONSTANT"
    THEN Return(pyvalue(self.wrapped), <<>>)
    ELSE IF self.definition = "DIRECT"
    THEN getitem(self.wrapped, IntIndex(idx))
    ELSE IF idx < 0 /\ isinf(self.length)
    THEN Raise("NotImplementedError", <<>>)
    ELSE Return(apply(self.wrapped.f,
                      self.c_start_i
                        + (IF idx < 0 THEN int(self.length) + idx ELSE idx)), <<>>)

\* The arguments self.wrapped is called with by self._get_int(index) of a
\* CALLABLE sequence: none when _raise_negative_forbidden raises, as the
\* call comes after it.
called_with(self, idx) ==
    IF self.definition # "CALLABLE" THEN <<>>
    ELSE IF idx < 0 /\ isinf(self.length) THEN <<>>
    ELSE <<self.c_start_i + (IF idx < 0 THEN int(self.length) + idx ELSE idx)>>

\* Faulty variant of _raise_if_infinite_result: only a slice with neither
\* start nor stop is refused.
_raise_if_infinite_result_only_open(_slice) ==
    IF _slice.start = None /\ _slice.stop = None
    THEN Raise("IndexError", <<>>)
    ELSE Return(None, <<>>)

\* self._raise_if_infinite_result(_slice).  The tests run inside
\* `with CatchNoneComparisons()`: an order comparison with None raises a
\* TypeError that the context manager swallows, which ends the block
\* without an exception.
_raise_if_infinite_result(_slice) ==
    LET step == IF _slice.step = None THEN 1 ELSE int(_slice.step)
        start == _slice.start
        stop == _slice.stop
        exception == Raise("IndexError", <<>>)
        pass == Return(None, <<>>)
    IN  IF start = None /\ stop = None THEN exception
        ELSE IF step > 0
        THEN IF stop = None
             THEN (IF int(start) >= 0 THEN exception ELSE pass)
             ELSE IF start = None \/ int(start) >= 0
                  THEN (IF int(stop) < 0 THEN exception ELSE pass)
                  ELSE pass
        ELSE IF step < 0
        THEN IF start = None
             THEN (IF int(stop) >= 0 THEN exception ELSE pass)
             ELSE IF int(start) < 0 /\ (stop = None \/ int(stop) >= 0)
                  THEN exception
                  ELSE pass
        ELSE pass

\* The test of negative bounds at the head of _get_slice, for a callable
\* without a length, also inside `with CatchNoneComparisons()`: when start
\* is None the TypeError ends the block before stop is looked at.
negative_forbidden(self, _slice) ==
    /\ isinstance_Callable(self.wrapped)
    /\ isinf(self.length)
    /\ _slice.start # None
    /\ \/ int(_slice.start) < 0
       \/ _slice.stop # None /\ int(_slice.stop) < 0

\* Faulty variant of max_length: stop is left out.
max_length_without_stop(_slice) ==
    1 + (IF _slice.start = None THEN 0 ELSE abs(int(_slice.start)))

\* max_length of _get_slice: 1 + abs(start) + abs(stop), None counting 0.
max_length(_slice) ==
    1 + (IF _slice.start = None THEN 0 ELSE abs(int(_slice.start)))
      + (IF _slice.stop = None THEN 0 ELSE abs(int(_slice.stop)))

\* Faulty variant of int_indices: the length is not used.
int_indices_without_length(self, _slice) ==
    slice_positions(_slice, max_length(_slice))

\* int_indices of _get_slice: range(*_slice.indices(self.length)) for a
\* finite length and range(*_slice.indices(max_length)) otherwise.
int_indices(self, _slice) ==
    IF isfinite(self.length)
    THEN slice_positions(_slice, int(self.length))
    ELSE slice_positions(_slice, max_length(_slice))

\* The argument of the FlexibleSequence that _get_slice returns, once the
\* slice is let through: the repeated value, the slice of the wrapped
\* sequence, or the list of the values at int_indices.
sliced(self, _slice) ==
    IF self.definition = "CONSTANT"
    THEN Return(list([j \in DOMAIN int_indices(self, _slice) |-> pyvalue(self.wrapped)]),
                <<>>)
    ELSE IF self.definition = "DIRECT"
    THEN getitem(self.wrapped, _slice)
    ELSE of_type(list(<<>>),
                 collect([j \in DOMAIN int_indices(self, _slice) |->
                             _get_int(self, int_indices(self, _slice)[j])]))

\* FlexibleSequence(x) for the value x of outcome r.
FlexibleSequence(r) ==
    IF r.exc # "none"
    THEN Raise(r.exc, <<>>)
    ELSE FlexibleSequence__init__(r.val, None, 0)

\* self._get_slice(_slice)
_get_slice(self, _slice) ==
    IF negative_forbidden(self, _slice)
    THEN Raise("NotImplementedError", <<>>)
    ELSE IF isinf(self.length) /\ _raise_if_infinite_result(_slice).exc # "none"
    THEN Raise("IndexError", <<>>)
    ELSE IF _slice.step = Some(0)
    THEN Raise("ValueError", <<>>)
    ELSE FlexibleSequence(sliced(self, _slice))

\* self[index]
FlexibleSequence__getitem__(self, idx) ==
    IF idx.slice THEN _get_slice(self, idx) ELSE _get_int(self, idx.i)

\* [i for i in self]: the list of the elements, or "diverges" when the
\* iteration has no end.
FlexibleSequence__iter__(self) ==
    IF self.definition = "DIRECT"
    THEN iter(self.wrapped)
    ELSE IF isfinite(self.length)
    THEN collect([j \in 1..int(self.length) |->
                     FlexibleSequence__getitem__(self, IntIndex(j - 1))])
    ELSE Raise("diverges", <<>>)

\* [i for i in x] for any object x: a dict yields its keys, an object that
\* is no iterable raises TypeError.
iter(x) ==
    IF x.cls = "FlexibleSequence" THEN FlexibleSequence__iter__(x)
    ELSE IF x.cls = "dict" THEN Return(x.keys, <<>>)
    ELSE IF x.cls \in {"int", "NoneType", "function"} THEN Raise("TypeError", <<>>)
    ELSE Return(x.data, <<>>)

\* The element at position i of the list the outcome r holds, or the end
\* of the iteration over it.
nth(r, i) ==
    IF r.exc # "none" THEN Raise(r.exc, <<>>)
    ELSE IF i < Len(r.val) THEN Return(r.val[i + 1], <<>>)
    ELSE Raise("StopIteration", <<>>)

\* Faulty variant of the generator: the positions start at 1.
FlexibleSequence__next__from_one(self, i) ==
    IF self.definition = "DIRECT"
    THEN nth(iter(self.wrapped), i)
    ELSE IF isfinite(self.length) /\ i >= int(self.length)
    THEN Raise("StopIteration", <<>>)
    ELSE FlexibleSequence__getitem__(self, IntIndex(i + 1))

\* One request to the generator self.__iter__() that has yielded i
\* elements: the next element, or StopIteration.  DIRECT yields from the
\* iterator of the wrapped sequence, the others yield self[i] for i in
\* range(self.length) or, without a length, for i in count().
FlexibleSequence__next__(self, i) ==
    IF self.definition = "DIRECT"
    THEN nth(iter(self.wrapped), i)
    ELSE IF isfinite(self.length) /\ i >= int(self.length)
    THEN Raise("StopIteration", <<>>)
    ELSE FlexibleSequence__getitem__(self, IntIndex(i))

\* Whether the elements x yields are ints (the other elements are None or
\* a dict, which are equal to no int).
holds_ints(x) ==
    IF x.cls # "FlexibleSequence" THEN TRUE
    ELSE IF x.definition = "CONSTANT" THEN x.wrapped.cls = "int"
    ELSE IF x.definition = "DIRECT" THEN holds_ints(x.wrapped)
    ELSE TRUE

\* [i for i in self] == [i for i in other], mine and theirs being the
\* outcomes of the two comprehensions, the first list holding ints or not
\* as mine_ints says and the second as theirs_ints.
list__eq__(mine, theirs, mine_ints, theirs_ints) ==
    IF mine.exc # "none" THEN Raise(mine.exc, <<>>)
    ELSE IF theirs.exc # "none" THEN Raise(theirs.exc, <<>>)
    ELSE IF Len(mine.val) # Len(theirs.val) THEN Return(FALSE, <<>>)
    ELSE IF mine.val = <<>> THEN Return(TRUE, <<>>)
    ELSE IF mine_ints # theirs_ints THEN Return(FALSE, <<>>)
    ELSE Return(mine.val = theirs.val, <<>>)

\* self == other
FlexibleSequence__eq__(self, other) ==
    IF other.cls = "NoneType"
    THEN Return(FALSE, <<>>)
    ELSE list__eq__(iter(self), iter(other), holds_ints(self), holds_ints(other))

\* ------------------------------------------- nonstd.list.OneIndexedList
\* The OneIndexedList of module nonstd.list, a MutableSequence of its own
\* that delegates to the list self._wrapped.
nonstd_list_OneIndexedList(init) ==
    [cls |-> "nonstd.list.OneIndexedList", _wrapped |-> init]

\* self._wrapped_integer_index(index), index being None or an int.
nonstd_list_wrapped_integer_index(idx) ==
    IF idx = None THEN Return(None, <<>>)
    ELSE IF int(idx) = 0 THEN Raise("IndexError", <<>>)
    ELSE IF int(idx) > 0 THEN Return(Some(int(idx) - 1), <<>>)
    ELSE Return(idx, <<>>)

\* self._wrapped_slice_index(index)
nonstd_list_wrapped_slice_index(idx) ==
    LET start == nonstd_list_wrapped_integer_index(idx.start)
        stop == nonstd_list_wrapped_integer_index(idx.stop)
    IN  IF start.exc # "none" THEN Raise(start.exc, <<>>)
        ELSE IF stop.exc # "none" THEN Raise(stop.exc, <<>>)
        ELSE Return([slice |-> TRUE, start |-> start.val, stop |-> stop.val,
                     step |-> idx.step], <<>>)

\* self._wrapped_index(index)
nonstd_list_wrapped_index(idx) ==
    IF idx.slice
    THEN nonstd_list_wrapped_slice_index(idx)
    ELSE LET i == nonstd_list_wrapped_integer_index(Some(idx.i))
         IN  IF i.exc # "none" THEN Raise(i.exc, <<>>)
             ELSE Return(IntIndex(int(i.val)), <<>>)

\* self[index]: self._wrapped[wrapped_i], which for a slice is a list.
nonstd_list__getitem__(self, idx) ==
    LET wrapped_i == nonstd_list_wrapped_index(idx)
    IN  IF wrapped_i.exc # "none" THEN Raise(wrapped_i.exc, <<>>)
        ELSE IF wrapped_i.val.slice
        THEN of_type(list(<<>>), list_getslice(self._wrapped, wrapped_i.val))
        ELSE list_getitem(self._wrapped, wrapped_i.val.i)

\* self.__eq__(other)
nonstd_list__eq__(self, other) ==
    IF other.cls # "nonstd.list.OneIndexedList"
    THEN Raise("NotImplementedError", <<>>)
    ELSE Return(self._wrapped = other._wrapped, <<>>)

\* a == b for a and b each a list or a OneIndexedList of nonstd.list:
\* list.__eq__ returns NotImplemented for an operand that is no list, and
\* then the __eq__ of the other operand is called.
operator_eq(a, b) ==
    IF a.cls = "nonstd.list.OneIndexedList" THEN nonstd_list__eq__(a, b)
    ELSE IF b.cls = "nonstd.list.OneIndexedList" THEN nonstd_list__eq__(b, a)
    ELSE Return(a.data = b.data, <<>>)

\* a[index] == b, a being a OneIndexedList of nonstd.list.
slice_eq(a, idx, b) ==
    LET left == nonstd_list__getitem__(a, idx)
    IN  IF left.exc # "none" THEN Raise(left.exc, <<>>)
        ELSE operator_eq(left.val, b)

\* ------------------------------------------------------ nonstd.logging.Tee
\* A stream is one of the two streams of the process, sys.__stdout__ and
\* sys.__stderr__, or a _StreamTee over a file and a stream.  A file is
\* named by its address; the files and the two streams of the process are
\* h = [files |-> [Addr -> [data, closed]], terminal |-> [stdout, stderr]],
\* data being what has been written so far.
TextIO(name) == [cls |-> "TextIO", name |-> name]
_StreamTee(file, stream) == [cls |-> "_StreamTee", file |-> file, stream |-> stream]

\* stream.write(data): _StreamTee.write writes to the file, then to the
\* stream; writing to a closed file raises ValueError.
RECURSIVE write(_, _, _)
write(stream, data, h) ==
    IF stream.cls = "TextIO"
    THEN Return(None, [h EXCEPT !.terminal[stream.name] = Append(@, data)])
    ELSE IF h.files[stream.file].closed
    THEN Raise("ValueError", h)
    ELSE write(stream.stream, data,
               [h EXCEPT !.files[stream.file].data = Append(@, data)])

\* Tee(file): file is a path, which is opened for writing, or an open
\* file of the caller; sys.stdout and sys.stderr are read here.
Tee__init__(sys, file, is_str) ==
    [cls |-> "Tee", file |-> file, should_close |-> is_str,
     stdout |-> sys.stdout, stderr |-> sys.stderr]

\* self.__enter__(): the new sys.stdout and sys.stderr.
Tee__enter__(self, sys) ==
    [sys EXCEPT !.stdout = _StreamTee(self.file, self.stdout),
                !.stderr = _StreamTee(self.file, self.stderr)]

\* self.__exit__(exc_type, exc_value, tb), first part: the new sys.stdout
\* and sys.stderr.
Tee__exit__(self, sys) ==
    [sys EXCEPT !.stdout = self.stdout, !.stderr = self.stderr]

\* self.__exit__(exc_type, exc_value, tb), second part: the traceback is
\* written to the file when there is an exception, and the file is closed
\* when the Tee opened it.
Tee__exit__file(self, exc, h) ==
    IF exc /\ h.files[self.file].closed
    THEN Raise("ValueError", h)
    ELSE Return(None,
                [h EXCEPT !.files[self.file] =
                    [data |-> IF exc THEN Append(@.data, "traceback") ELSE @.data,
                     closed |-> @.closed \/ self.should_close]])

\* ------------------------------------------------------------- the client
\* The client holds the container s and, after a copy, the container t.
\* A container in the state has its backing list in the heap, data being
\* the address of the list; a container returned by a call is held by
\* value, data being the elements.
NoObj == [cls |-> "none"]
NoOp == [name |-> "none"]
NoRet == [exc |-> "none", val |-> <<>>]
Addr == {1, 2}
obj(who) == IF who = "s" THEN s ELSE t
contents(who) == heap[obj(who).data]

\* What the client compares a container with.
Others ==
    {[cls |-> "NoneType"]}
    \cup {[cls |-> "int", val |-> v] : v \in Val}
    \cup {[cls |-> c, data |-> d] : c \in {"list", "tuple"}, d \in Lists}
    \cup {OffsetList(d, k) : d \in Lists, k \in StartIs}
    \cup {OneIndexedList(d) : d \in Lists}

\* What the client assigns to a slice.
SliceValues == {<<>>, <<2>>, <<2, 1>>}

\* The client constructs s = OffsetList(initlist, start_i) or
\* s = OneIndexedList(initlist).
Init ==
    \E initlist \in Lists, start_i \in StartIs, cls \in {"OffsetList", "OneIndexedList"} :
        /\ s = IF cls = "OffsetList"
               THEN [OffsetList(initlist, start_i) EXCEPT !.data = 1]
               ELSE [OneIndexedList(initlist) EXCEPT !.data = 1]
        /\ heap = [a \in Addr |-> IF a = 1 THEN initlist ELSE <<>>]
        /\ t = NoObj
        /\ pc = "ready"
        /\ op = NoOp
        /\ ret = NoRet

\* The client is between two calls and holds the container who.
Ready(who) ==
    /\ pc = "ready"
    /\ obj(who) # NoObj

\* The call `call` on container who ends with outcome r: the outcome is
\* recorded and the backing list of the container becomes r.data.
Finish(who, call, r) ==
    /\ Len(r.data) <= MaxLen
    /\ pc' = "returned"
    /\ op' = [call EXCEPT !.who = who, !.self = obj(who), !.pre = contents(who),
                          !.heap = heap]
    /\ ret' = [exc |-> r.exc, val |-> r.val]
    /\ heap' = [heap EXCEPT ![obj(who).data] = r.data]
    /\ UNCHANGED <<s, t>>

\* The record of a call: its name and arguments and, filled in by Finish,
\* the container called (who), its fields (self) and backing list (pre)
\* before the call, and the whole heap before the call.
Call(name, idx, value) ==
    [name |-> name, index |-> idx, value |-> value,
     who |-> "", self |-> NoObj, pre |-> <<>>, heap |-> <<>>]

Call_getitem(who) ==
    /\ Ready(who)
    /\ \E i \in IntIndexes \cup Slices :
        Finish(who, Call("getitem", i, <<>>),
               __getitem__(obj(who), contents(who), i))

Call_setitem(who) ==
    /\ Ready(who)
    /\ \/ \E i \in IntIndexes, value \in Val :
            Finish(who, Call("setitem", i, value),
                   __setitem__(obj(who), contents(who), i, value))
       \/ \E i \in Slices, value \in SliceValues :
            Finish(who, Call("setitem", i, value),
                   __setitem__(obj(who), contents(who), i, value))

Call_delitem(who) ==
    /\ Ready(who)
    /\ \E i \in IntIndexes \cup Slices :
        Finish(who, Call("delitem", i, <<>>),
               __delitem__(obj(who), contents(who), i))

Call_insert(who) ==
    /\ Ready(who)
    /\ \E i \in IntIndexes, value \in Val :
        Finish(who, Call("insert", i, value),
               insert(obj(who), contents(who), i, value))

Call_pop(who) ==
    /\ Ready(who)
    /\ \E i \in OptIdx :
        Finish(who, Call("pop", i, <<>>), pop(obj(who), contents(who), i))

Call_index(who) ==
    /\ Ready(who)
    /\ \E value \in Val, start \in OptIdx, stop \in OptIdx :
        Finish(who, Call("index", [start |-> start, stop |-> stop], value),
               index(obj(who), contents(who), value, start, stop))

Call_eq(who) ==
    /\ Ready(who)
    /\ \E other \in Others :
        Finish(who, Call("eq", <<>>, other), __eq__(obj(who), contents(who), other))

Call_keys(who) ==
    /\ Ready(who)
    /\ Finish(who, Call("keys", <<>>, <<>>), keys(obj(who), contents(who)))

Call_indices(who) ==
    /\ Ready(who)
    /\ Finish(who, Call("indices", <<>>, <<>>), indices(obj(who), contents(who)))

Call_items(who) ==
    /\ Ready(who)
    /\ Finish(who, Call("items", <<>>, <<>>), items(obj(who), contents(who)))

Call_append(who) ==
    /\ Ready(who)
    /\ \E value \in Val :
        Finish(who, Call("append", <<>>, value),
               append(obj(who), contents(who), value))

\* What the client adds to a container and how many times it repeats one.
Addends ==
    {[cls |-> "list", data |-> <<>>], [cls |-> "list", data |-> <<2>>],
     [cls |-> "tuple", data |-> <<1>>], OffsetList(<<1>>, 0)}
Times == -1..2

\* who + other: the new container is the value of the call.
Call_add(who) ==
    /\ Ready(who)
    /\ \E other \in Addends :
        Finish(who, Call("add", <<>>, other), __add__(obj(who), contents(who), other))

\* who * n
Call_mul(who) ==
    /\ Ready(who)
    /\ \E n \in Times :
        Finish(who, Call("mul", <<>>, n), __mul__(obj(who), contents(who), n))

\* t = s.copy(): the new container gets a backing list of its own.
Call_copy ==
    LET r == copy(s, contents("s"))
        a == CHOOSE a \in Addr : a # s.data
    IN  /\ pc = "ready"
        /\ pc' = "returned"
        /\ op' = [Call("copy", <<>>, <<>>) EXCEPT !.who = "s", !.self = s,
                                                  !.pre = contents("s"),
                                                  !.heap = heap]
        /\ ret' = [exc |-> r.exc, val |-> r.val]
        /\ t' = [r.val EXCEPT !.data = a]
        /\ heap' = [heap EXCEPT ![a] = r.val.data]
        /\ UNCHANGED s

\* The client has looked at the outcome and goes on to its next call.
Continue ==
    /\ pc = "returned"
    /\ pc' = "ready"
    /\ op' = NoOp
    /\ ret' = NoRet
    /\ UNCHANGED <<s, t, heap>>

\* The client works on one container.
Next ==
    \/ Call_getitem("s")
    \/ Call_setitem("s")
    \/ Call_delitem("s")
    \/ Call_insert("s")
    \/ Call_pop("s")
    \/ Call_index("s")
    \/ Call_eq("s")
    \/ Call_keys("s")
    \/ Call_indices("s")
    \/ Call_items("s")
    \/ Call_append("s")
    \/ Call_add("s")
    \/ Call_mul("s")
    \/ Continue

Spec == Init /\ [][Next]_vars

\* The client copies its container and goes on changing both.
NextCopy ==
    \/ Call_copy
    \/ \E who \in {"s", "t"} :
        \/ Call_append(who)
        \/ Call_pop(who)
        \/ Call_insert(who)
    \/ Continue

SpecCopy == Init /\ [][NextCopy]_vars


\* ------------------------------------------- the client with a plain list
\* The client makes a plain list, held as t at address 2, and constructs
\* s = OffsetList(t, start_i) or s = OneIndexedList(t) from it.
InitFromList ==
    \E initlist \in Lists, start_i \in StartIs, cls \in {"OffsetList", "OneIndexedList"} :
        /\ s = IF cls = "OffsetList"
               THEN [OffsetList(initlist, start_i) EXCEPT !.data = UserList__init__(2, 1)]
               ELSE [OneIndexedList(initlist) EXCEPT !.data = UserList__init__(2, 1)]
        /\ t = [cls |-> "list", data |-> 2]
        /\ heap = [a \in Addr |-> initlist]
        /\ pc = "ready"
        /\ op = NoOp
        /\ ret = NoRet

\* The index the client uses on the plain list for the index i it uses on
\* an OffsetList with start_i = k: a non-negative index is reduced by k.
reduced(k, i) == IF i >= 0 THEN i - k ELSE i

\* One operation run side by side: the call `call` on s ends with outcome
\* r and the same operation on the plain list t ends with outcome q.
FinishBoth(call, r, q) ==
    /\ Len(r.data) <= MaxLen
    /\ Len(q.data) <= MaxLen
    /\ pc' = "returned"
    /\ op' = [call EXCEPT !.who = "s", !.self = s, !.pre = contents("s"),
                          !.heap = heap]
    /\ ret' = [exc |-> r.exc, val |-> r.val]
    /\ heap' = [heap EXCEPT ![s.data] = r.data, ![t.data] = q.data]
    /\ UNCHANGED <<s, t>>

Both_append ==
    /\ Ready("s")
    /\ \E value \in Val :
        FinishBoth(Call("append", <<>>, value),
                   append(s, contents("s"), value),
                   list_append(contents("t"), value))

Both_extend ==
    /\ Ready("s")
    /\ \E other \in SliceValues :
        FinishBoth(Call("extend", <<>>, other),
                   extend(s, contents("s"), other),
                   list_extend(contents("t"), other))

Both_insert ==
    /\ Ready("s")
    /\ \E i \in IntIndexes, value \in Val :
        FinishBoth(Call("insert", i, value),
                   insert(s, contents("s"), i, value),
                   list_insert(contents("t"), reduced(s.start_i, i.i), value))

Both_remove ==
    /\ Ready("s")
    /\ \E value \in Val :
        FinishBoth(Call("remove", <<>>, value),
                   remove(s, contents("s"), value),
                   list_remove(contents("t"), value))

Both_setitem ==
    /\ Ready("s")
    /\ \E i \in IntIndexes, value \in Val :
        FinishBoth(Call("setitem", i, value),
                   __setitem__(s, contents("s"), i, value),
                   list_setitem(contents("t"), reduced(s.start_i, i.i), value))

Both_delitem ==
    /\ Ready("s")
    /\ \E i \in IntIndexes :
        FinishBoth(Call("delitem", i, <<>>),
                   __delitem__(s, contents("s"), i),
                   list_delitem(contents("t"), reduced(s.start_i, i.i)))

Both_sort ==
    /\ Ready("s")
    /\ \E key \in {"none", "negate"}, rev \in BOOLEAN :
        FinishBoth(Call("sort", <<>>, [key |-> key, reverse |-> rev]),
                   sort(s, contents("s"), key, rev),
                   list_sort(contents("t"), key, rev))

Both_reverse ==
    /\ Ready("s")
    /\ FinishBoth(Call("reverse", <<>>, <<>>),
                  reverse(s, contents("s")),
                  list_reverse(contents("t")))

Both_clear ==
    /\ Ready("s")
    /\ FinishBoth(Call("clear", <<>>, <<>>),
                  clear(s, contents("s")),
                  list_clear(contents("t")))

\* The client runs every mutation on s and on the plain list t.
NextRefine ==
    \/ Both_append
    \/ Both_extend
    \/ Both_insert
    \/ Both_remove
    \/ Both_setitem
    \/ Both_delitem
    \/ Both_sort
    \/ Both_reverse
    \/ Both_clear
    \/ Continue

SpecRefine == InitFromList /\ [][NextRefine]_vars

\* ------------------------------------------------ the client with a slice
\* Calls on the plain list the client holds as t.
List_append ==
    /\ Ready("t")
    /\ t.cls = "list"
    /\ \E value \in Val :
        Finish("t", Call("append", <<>>, value), list_append(contents("t"), value))

List_pop ==
    /\ Ready("t")
    /\ t.cls = "list"
    /\ Finish("t", Call("pop", None, <<>>), list_pop(contents("t"), -1))

\* The slices s[a:] and s[a::-1].
TailSlices == {sl \in Slices : sl.stop = None /\ sl.step \in {None, Some(-1)}}

\* t = s[a:b:c]: the list made by self.data[wrapped_i], copied once more by
\* the constructor, is a list no other object holds.  When the subscript
\* raises, t is left as it was.
Call_slice ==
    LET a == CHOOSE a \in Addr : a # s.data
    IN  /\ Ready("s")
        /\ \E sl \in TailSlices :
            LET r == __getitem__(s, contents("s"), sl)
            IN  /\ pc' = "returned"
                /\ op' = [Call("slice", sl, <<>>) EXCEPT !.who = "s", !.self = s,
                                                         !.pre = contents("s"),
                                                         !.heap = heap]
                /\ ret' = [exc |-> r.exc, val |-> r.val]
                /\ IF r.exc = "none"
                   THEN /\ t' = [r.val EXCEPT !.data = a]
                        /\ heap' = [heap EXCEPT ![a] = r.val.data]
                   ELSE UNCHANGED <<t, heap>>
                /\ UNCHANGED s

\* The client changes s and the list it was made from, takes a slice of s
\* in place of that list, and changes s and the slice.
NextOwn ==
    \/ Call_append("s")
    \/ Call_pop("s")
    \/ List_append
    \/ List_pop
    \/ Call_slice
    \/ isinstance_OffsetList(t) /\ Call_append("t")
    \/ isinstance_OffsetList(t) /\ Call_pop("t")
    \/ Continue

SpecOwn == InitFromList /\ [][NextOwn]_vars

\* ------------------------------------- the client of a FlexibleSequence
\* The bounds and steps of the slices of test_access_slice_finite and
\* test_access_slice_infinite.
TestBounds == {None} \cup {Some(i) : i \in -4..3}
TestSteps == {None} \cup {Some(c) : c \in (-4..-1) \cup (1..3)}
TestSlices == [slice : {TRUE}, start : TestBounds, stop : TestBounds, step : TestSteps]

\* The length and callable_start_i arguments the client passes.
Lengths == {None} \cup {Some(n) : n \in 0..MaxLen}
CStarts == {0, 2}

\* FlexibleSequence objects the client wraps again: a finite CALLABLE one,
\* a DIRECT one and an unbounded CONSTANT one.
Wrappable ==
    {FlexibleSequence__init__(function("square"), Some(2), 0).val,
     FlexibleSequence__init__(list(<<1, 2>>), None, 0).val,
     FlexibleSequence__init__(pyint(1), None, 0).val}

\* The specifications the client constructs a FlexibleSequence from.
SpecInputs ==
    {list(d) : d \in Lists} \cup {tuple(d) : d \in Lists}
    \cup {OneIndexedList(d) : d \in Lists}
    \cup {CallableList(d) : d \in Lists}
    \cup {function(f) : f \in Funcs}
    \cup {pyint(v) : v \in Val}
    \cup {NoneType, dict(<<1>>)}
    \cup Wrappable

\* What the client compares a FlexibleSequence with: the lists
\* [f(c), ..., f(c + n - 1)], other lists and tuples, None, an int.
FlexOthers ==
    {list([j \in 1..n |-> apply(f, c + j - 1)]) : f \in Funcs, c \in CStarts, n \in 0..MaxLen}
    \cup {list(<<1, 2>>), tuple(<<1, 2>>), list(<<2, 2>>), NoneType, pyint(1)}

InitFlex ==
    /\ s = NoObj
    /\ t = NoObj
    /\ heap = [a \in Addr |-> <<>>]
    /\ pc = "ready"
    /\ op = NoOp
    /\ ret = NoRet

\* The client holds a FlexibleSequence s and is between two calls.
FlexReady ==
    /\ pc = "ready"
    /\ s.cls = "FlexibleSequence"

\* The call `call` on s ends with outcome r; s is not changed by any call.
FinishFlex(call, r) ==
    /\ pc' = "returned"
    /\ op' = [call EXCEPT !.who = "s", !.self = s]
    /\ ret' = [exc |-> r.exc, val |-> r.val]
    /\ UNCHANGED <<s, t, heap>>

\* s = FlexibleSequence(spec, length, callable_start_i); s is unbound when
\* the constructor raises.
Flex_init ==
    /\ pc = "ready"
    /\ \E spec \in SpecInputs, length \in Lengths, c \in CStarts :
        LET r == FlexibleSequence__init__(spec, length, c)
        IN  /\ pc' = "returned"
            /\ op' = [Call("FlexibleSequence", <<>>,
                           [spec |-> spec, length |-> length, callable_start_i |-> c])
                      EXCEPT !.who = "s"]
            /\ ret' = [exc |-> r.exc, val |-> r.val]
            /\ s' = IF r.exc = "none" THEN r.val ELSE NoObj
            /\ UNCHANGED <<t, heap>>

Flex_getitem ==
    /\ FlexReady
    /\ \E idx \in IntIndexes \cup TestSlices :
        FinishFlex(Call("flex_getitem", idx, <<>>), FlexibleSequence__getitem__(s, idx))

Flex_len ==
    /\ FlexReady
    /\ FinishFlex(Call("flex_len", <<>>, <<>>), FlexibleSequence__len__(s))

Flex_eq ==
    /\ FlexReady
    /\ \E other \in FlexOthers :
        FinishFlex(Call("flex_eq", <<>>, other), FlexibleSequence__eq__(s, other))

\* FlexibleSequence(s, length): the FlexibleSequence s is wrapped again;
\* the new object is the value of the call and s stays as it is.
Flex_rewrap ==
    /\ FlexReady
    /\ \E length \in Lengths :
        FinishFlex(Call("flex_rewrap", <<>>,
                        [spec |-> s, length |-> length, callable_start_i |-> 0]),
                   FlexibleSequence__init__(s, length, 0))

NextFlex ==
    \/ Flex_init
    \/ Flex_getitem
    \/ Flex_len
    \/ Flex_eq
    \/ Flex_rewrap
    \/ Continue

SpecFlex == InitFlex /\ [][NextFlex]_vars

\* ------------------------------------- the consumer of an iteration
\* The consumer runs `for i in s`, s being a FlexibleSequence: t is the
\* generator, i counting the elements it has yielded, and the consumer
\* keeps the elements it receives in the list at address 1.  The consumer
\* asks for an element at most MaxRequests times.
MaxRequests == MaxLen + 1
generator(i, state) == [cls |-> "generator", i |-> i, state |-> state]
received == heap[1]

InitIter ==
    /\ \E spec \in SpecInputs, length \in Lengths, c \in CStarts :
         /\ FlexibleSequence__init__(spec, length, c).exc = "none"
         /\ s = FlexibleSequence__init__(spec, length, c).val
    /\ t = NoObj
    /\ heap = [a \in Addr |-> <<>>]
    /\ pc = "ready"
    /\ op = NoOp
    /\ ret = NoRet

\* iter(s): the generator is made; none of its code has run yet.
Iter_start ==
    /\ pc = "ready"
    /\ pc' = "iterating"
    /\ t' = generator(0, "suspended")
    /\ UNCHANGED <<s, heap, op, ret>>

\* next(t): the consumer receives an element, or the loop ends with the
\* StopIteration of the generator.
Iter_next ==
    /\ pc = "iterating"
    /\ t.i < MaxRequests
    /\ LET r == FlexibleSequence__next__(s, t.i)
       IN  IF r.exc = "none"
           THEN /\ t' = generator(t.i + 1, "suspended")
                /\ heap' = [heap EXCEPT ![1] = Append(@, r.val)]
                /\ pc' = "iterating"
           ELSE /\ t' = generator(t.i, "exhausted")
                /\ heap' = heap
                /\ pc' = "done"
    /\ UNCHANGED <<s, op, ret>>

\* break: the consumer leaves the loop and asks for nothing more.
Iter_break ==
    /\ pc = "iterating"
    /\ pc' = "done"
    /\ t' = generator(t.i, "closed")
    /\ UNCHANGED <<s, heap, op, ret>>

NextIter ==
    \/ Iter_start
    \/ Iter_next
    \/ Iter_break

\* The consumer that has not left the loop goes on asking, up to
\* MaxRequests times.
SpecIter == InitIter /\ [][NextIter]_vars /\ WF_vars(Iter_start) /\ WF_vars(Iter_next)

\* ------------------------- the client of a nonstd.list.OneIndexedList
\* The slices of test_access_slice, and what the client compares a
\* OneIndexedList or a slice of it with.
ListTestSlices ==
    [slice : {TRUE},
     start : {None, Some(1), Some(2), Some(-2)},
     stop : {None, Some(1), Some(2), Some(3), Some(4), Some(-2)},
     step : {None, Some(2), Some(-1)}]
ListOthers == {nonstd_list_OneIndexedList(d) : d \in Lists} \cup {list(d) : d \in Lists}

\* oil = OneIndexedList(init)
InitList ==
    /\ \E init \in Lists : s = nonstd_list_OneIndexedList(init)
    /\ t = NoObj
    /\ heap = [a \in Addr |-> <<>>]
    /\ pc = "ready"
    /\ op = NoOp
    /\ ret = NoRet

\* s[index]
Oil_getitem ==
    /\ pc = "ready"
    /\ \E idx \in IntIndexes \cup Slices :
        FinishFlex(Call("oil_getitem", idx, <<>>), nonstd_list__getitem__(s, idx))

\* s == other
Oil_eq ==
    /\ pc = "ready"
    /\ \E other \in ListOthers :
        FinishFlex(Call("oil_eq", <<>>, other), nonstd_list__eq__(s, other))

\* s[index] == other
Oil_slice_eq ==
    /\ pc = "ready"
    /\ \E idx \in ListTestSlices, other \in ListOthers :
        FinishFlex(Call("oil_slice_eq", idx, other), slice_eq(s, idx, other))

NextList ==
    \/ Oil_getitem
    \/ Oil_eq
    \/ Oil_slice_eq
    \/ Continue

SpecList == InitList /\ [][NextList]_vars

\* ------------------------------------------------- the client of Tee
\* s is the module sys, t holds the Tee objects the client has made, by
\* the address of their files, and the with blocks it is in, innermost
\* last: for each block its Tee and what sys.stdout and sys.stderr were
\* when the block was entered.  heap holds the files and the streams of
\* the process.  No file and no stream gets more than MaxOut writes, and
\* the client is in at most MaxDepth blocks.
MaxOut == 1
MaxDepth == 2

InitTee ==
    /\ s = [cls |-> "sys", stdout |-> TextIO("stdout"), stderr |-> TextIO("stderr")]
    /\ t = [cls |-> "client", tee |-> [a \in Addr |-> NoObj], open |-> <<>>]
    /\ heap = [files |-> [a \in Addr |-> [data |-> <<>>, closed |-> FALSE]],
               terminal |-> [stdout |-> <<>>, stderr |-> <<>>]]
    /\ pc = "ready"
    /\ op = NoOp
    /\ ret = NoRet

\* tee = Tee(file), file being a path or an open file.
Tee_init ==
    \E a \in Addr, is_str \in BOOLEAN :
        /\ t.tee[a] = NoObj
        /\ t' = [t EXCEPT !.tee[a] = Tee__init__(s, a, is_str)]
        /\ op' = Call("Tee", <<>>, a)
        /\ ret' = NoRet
        /\ UNCHANGED <<s, heap, pc>>

\* with tee:
Tee_enter ==
    \E a \in Addr :
        /\ t.tee[a] # NoObj
        /\ Len(t.open) < MaxDepth
        /\ s' = Tee__enter__(t.tee[a], s)
        /\ t' = [t EXCEPT !.open = Append(@, [tee |-> a, stdout |-> s.stdout,
                                               stderr |-> s.stderr])]
        /\ op' = Call("__enter__", <<>>, a)
        /\ ret' = NoRet
        /\ UNCHANGED <<heap, pc>>

\* The innermost with block is left, with an exception or without.
Tee_exit ==
    /\ t.open # <<>>
    /\ \E exc \in BOOLEAN :
        LET block == t.open[Len(t.open)]
            self == t.tee[block.tee]
            r == Tee__exit__file(self, exc, heap)
        IN  /\ exc => Len(heap.files[self.file].data) < MaxOut
            /\ s' = Tee__exit__(self, s)
            /\ t' = [t EXCEPT !.open = SubSeq(@, 1, Len(@) - 1)]
            /\ heap' = r.data
            /\ op' = [Call("__exit__", <<>>, block) EXCEPT !.heap = heap]
            /\ ret' = [exc |-> r.exc, val |-> r.val]
            /\ pc' = pc

\* sys.stdout.write(data) or sys.stderr.write(data)
Tee_write ==
    \E name \in {"stdout", "stderr"} :
        LET r == write(s[name], "data", heap)
        IN  /\ Len(heap.terminal[name]) < MaxOut
            /\ \A a \in Addr : Len(heap.files[a].data) < MaxOut
            /\ heap' = r.data
            /\ op' = [Call("write", <<>>, name) EXCEPT !.heap = heap]
            /\ ret' = [exc |-> r.exc, val |-> r.val]
            /\ UNCHANGED <<s, t, pc>>

NextTee ==
    \/ Tee_init
    \/ Tee_enter
    \/ Tee_exit
    \/ Tee_write

SpecTee == InitTee /\ [][NextTee]_vars

\* ------------------------------------------------------------- claims
\* The call just made on s, its receiver before the call and its arguments.
Returned(name) == pc = "returned" /\ op.name = name
k0 == op.self.start_i
d0 == op.pre
IntCall(name) == Returned(name) /\ ~op.index.slice
SliceCall(name) == Returned(name) /\ op.index.slice
\* An optional bound that is an int x with 0 <= x < start_i.
BelowStart(o) == o # None /\ 0 <= int(o) /\ int(o) < k0
\* An optional bound that is None, negative, or at least start_i.
Translatable(o) == o = None \/ int(o) < 0 \/ int(o) >= k0
\* The translation of such a bound to the 0-based list.
Translated(o) == IF o = None \/ int(o) < 0 THEN o ELSE Some(int(o) - k0)

\* C1: s[i] for a non-negative i with start_i <= i is data[i - start_i]
\* when i < start_i + len(data), and raises IndexError when i is beyond.
C1_OffsetAccess ==
    (IntCall("getitem") /\ op.index.i >= 0 /\ op.index.i >= k0) =>
        IF op.index.i < k0 + Len(d0)
        THEN ret.exc = "none" /\ ret.val = d0[op.index.i - k0 + 1]
        ELSE ret.exc = "IndexError"

C1_Witness ==
    /\ IntCall("getitem")
    /\ k0 = 2
    /\ op.index.i = 3
    /\ d0 = <<1, 2, 1>>
    /\ ret.exc = "none"
    /\ ret.val = 2

\* C2: s[i] for a negative i is data[i], counted from the end with no
\* offset, when i >= -len(data), and raises IndexError when i < -len(data).
C2_NegativeAccess ==
    (IntCall("getitem") /\ op.index.i < 0) =>
        IF op.index.i >= -Len(d0)
        THEN ret.exc = "none" /\ ret.val = d0[Len(d0) + op.index.i + 1]
        ELSE ret.exc = "IndexError"

C2_Witness ==
    /\ IntCall("getitem")
    /\ k0 = 2
    /\ op.index.i = -2
    /\ d0 = <<1, 2, 1>>
    /\ ret.exc = "none"
    /\ ret.val = 2

\* C3: with start_i > 0, a read, write, deletion, insert or pop at an int
\* i with 0 <= i < start_i, and a slice read, write or deletion whose start
\* or stop is such an i, raises IndexError and leaves the data and start_i
\* of the container as they were.
C3_Case ==
    /\ pc = "returned"
    /\ op.name \in {"getitem", "setitem", "delitem", "insert", "pop"}
    /\ k0 > 0
    /\ IF op.name = "pop"
       THEN BelowStart(op.index)
       ELSE IF op.index.slice
            THEN BelowStart(op.index.start) \/ BelowStart(op.index.stop)
            ELSE BelowStart(Some(op.index.i))

C3_BelowStartRejected ==
    C3_Case => /\ ret.exc = "IndexError"
               /\ contents("s") = d0
               /\ s = op.self

C3_Witness ==
    /\ C3_Case
    /\ op.name = "setitem"
    /\ op.index.slice
    /\ op.index.start = Some(-1)
    /\ op.index.stop = Some(1)
    /\ k0 = 2
    /\ d0 = <<1, 2>>
    /\ ret.exc = "IndexError"
    /\ contents("s") = <<1, 2>>

\* C4: a slice read whose bounds are each None, negative or >= start_i
\* returns an OffsetList with the receiver's start_i whose data is the
\* list slice data[a':b':c], a non-negative bound x being translated to
\* x - start_i and the others passed unchanged (a step of 0 is the list's
\* ValueError); the receiver may be a OneIndexedList.
C4_SliceClosure ==
    (SliceCall("getitem") /\ Translatable(op.index.start) /\ Translatable(op.index.stop)) =>
        LET expected == list_getslice(d0, [slice |-> TRUE,
                                           start |-> Translated(op.index.start),
                                           stop |-> Translated(op.index.stop),
                                           step |-> op.index.step])
        IN  IF op.index.step = Some(0)
            THEN ret.exc = "ValueError"
            ELSE /\ ret.exc = "none"
                 /\ isinstance_OffsetList(ret.val)
                 /\ ret.val.start_i = k0
                 /\ ret.val.data = expected.val

C4_Witness ==
    /\ SliceCall("getitem")
    /\ op.self.cls = "OneIndexedList"
    /\ d0 = <<1, 2, 1>>
    /\ op.index = [slice |-> TRUE, start |-> Some(2), stop |-> None, step |-> None]
    /\ ret.exc = "none"
    /\ ret.val = OffsetList(<<2, 1>>, 1)

\* C5: s.items() is the list of the pairs (start_i + j, data[j]),
\* j = 0 .. len(data) - 1, whatever the sign of start_i.
C5_ItemsPairKeysWithData ==
    Returned("items") =>
        /\ ret.exc = "none"
        /\ ret.val = [j \in 1..Len(d0) |-> <<k0 + j - 1, d0[j]>>]

\* C6: s.copy() is a new OffsetList with the start_i and the data of s,
\* and a later change of the copy or of s leaves the other one as it was.
C6_CopyKeepsStartI ==
    /\ Returned("copy") =>
            /\ ret.exc = "none"
            /\ isinstance_OffsetList(t)
            /\ t.start_i = s.start_i
            /\ contents("t") = contents("s")
    /\ (pc = "returned" /\ op.name \in {"append", "pop", "insert"} /\ t # NoObj) =>
            LET other == IF op.who = "s" THEN "t" ELSE "s"
            IN  contents(other) = op.heap[obj(other).data]

\* C7 as stated: == against anything that is not an OffsetList, None
\* included, raises NotImplementedError.
C7_Original ==
    (Returned("eq") /\ ~isinstance_OffsetList(op.value)) =>
        ret.exc = "NotImplementedError"

\* C7 as amended: == against None returns False; against any other value
\* that is not an OffsetList (a list, a tuple, a number) it raises
\* NotImplementedError.
C7_NonOffsetListComparison ==
    (Returned("eq") /\ ~isinstance_OffsetList(op.value)) =>
        IF op.value.cls = "NoneType"
        THEN ret.exc = "none" /\ ret.val = FALSE
        ELSE ret.exc = "NotImplementedError"

C7_Witness ==
    /\ Returned("eq")
    /\ d0 = <<1, 2>>
    /\ op.value = [cls |-> "list", data |-> <<1, 2>>]
    /\ ret.exc = "NotImplementedError"

\* C8: for two OffsetLists, == returns whether the data lists are equal
\* when the start_i are equal, and raises NotImplementedError when they
\* differ.
C8_OffsetListEquality ==
    (Returned("eq") /\ isinstance_OffsetList(op.value)) =>
        IF k0 = op.value.start_i
        THEN ret.exc = "none" /\ ret.val = (d0 = op.value.data)
        ELSE ret.exc = "NotImplementedError"

C8_Witness ==
    /\ Returned("eq")
    /\ isinstance_OffsetList(op.value)
    /\ k0 = 2
    /\ op.value.start_i = 1
    /\ d0 = <<1, 2>>
    /\ op.value.data = <<1, 2>>
    /\ ret.exc = "NotImplementedError"

\* C9: s.index(v) without bounds, and with two bounds that are each
\* >= start_i, returns the smallest logical index j within the bounds
\* with data[j - start_i] = v, and raises ValueError when there is none,
\* whatever the sign of start_i.
C9_IndexReturnsFirstLogical ==
    (/\ Returned("index")
     /\ \/ op.index.start = None /\ op.index.stop = None
        \/ /\ op.index.start # None /\ int(op.index.start) >= k0
           /\ op.index.stop # None /\ int(op.index.stop) >= k0) =>
        LET lo == IF op.index.start = None THEN k0 ELSE int(op.index.start)
            hi == IF op.index.stop = None THEN k0 + Len(d0) ELSE int(op.index.stop)
            hits == {j \in k0..(k0 + Len(d0) - 1) :
                        lo <= j /\ j < hi /\ d0[j - k0 + 1] = op.value}
        IN  IF hits = {}
            THEN ret.exc = "ValueError"
            ELSE /\ ret.exc = "none"
                 /\ ret.val \in hits
                 /\ \A j \in hits : ret.val <= j

\* C10: with start_i >= 0, pop() removes and returns the last element,
\* pop(i) with start_i <= i < start_i + len removes and returns the element
\* that was at s[i], and pop() on an empty container raises IndexError and
\* leaves it empty.
C10_Pop ==
    (Returned("pop") /\ k0 >= 0) =>
        /\ (op.index = None /\ d0 # <<>>) =>
                /\ ret.exc = "none"
                /\ ret.val = d0[Len(d0)]
                /\ contents("s") = SubSeq(d0, 1, Len(d0) - 1)
        /\ (op.index = None /\ d0 = <<>>) =>
                /\ ret.exc = "IndexError"
                /\ contents("s") = <<>>
        /\ (op.index # None /\ k0 <= int(op.index) /\ int(op.index) < k0 + Len(d0)) =>
                /\ ret.exc = "none"
                /\ ret.val = d0[int(op.index) - k0 + 1]
                /\ contents("s") = SubSeq(d0, 1, int(op.index) - k0)
                                   \o SubSeq(d0, int(op.index) - k0 + 2, Len(d0))

C10_Witness ==
    /\ Returned("pop")
    /\ k0 = 2
    /\ op.index = Some(3)
    /\ d0 = <<1, 2, 1>>
    /\ ret.exc = "none"
    /\ ret.val = 2
    /\ contents("s") = <<1, 1>>


\* The operations run side by side on s and on the plain list t.
Mutators ==
    {"append", "extend", "insert", "remove", "setitem", "delitem", "sort",
     "reverse", "clear"}
SideBySide == pc = "returned" /\ op.name \in Mutators
\* The call just made took an int index i with 0 <= i < start_i.
IndexBelowStart ==
    /\ op.name \in {"insert", "setitem", "delitem"}
    /\ op.index.i >= 0
    /\ op.index.i < k0

\* C11, as stated: whatever mutations were run on an OffsetList with
\* start_i = k >= 0 and, with every non-negative index reduced by k, on a
\* plain list, the two hold the same elements.
C11_Original ==
    s.start_i >= 0 => contents("s") = contents("t")

\* C11, amended: a mutation that does not take an index i with
\* 0 <= i < k, run on an OffsetList with start_i = k >= 0 and, with every
\* non-negative index reduced by k, on a plain list that held the same
\* elements, leaves the two holding the same elements, and start_i is
\* still k.
C11_Refinement ==
    (/\ SideBySide
     /\ k0 >= 0
     /\ op.heap[s.data] = op.heap[t.data]
     /\ ~IndexBelowStart) =>
        /\ contents("s") = contents("t")
        /\ s.start_i = k0

C11_Witness ==
    /\ Returned("insert")
    /\ k0 = 2
    /\ op.index.i = 3
    /\ op.heap[s.data] = <<1, 2>>
    /\ op.heap[t.data] = <<1, 2>>
    /\ contents("s") = <<1, 2, 2>>
    /\ contents("t") = <<1, 2, 2>>

\* C12: whatever mutations the container has gone through, keys() and
\* indices() return the list start_i, start_i + 1, ..., start_i + len - 1,
\* which is empty for an empty container.
C12_KeysAreLogicalIndices ==
    (Returned("keys") \/ Returned("indices")) =>
        /\ ret.exc = "none"
        /\ Len(ret.val) = Len(d0)
        /\ \A j \in 1..Len(d0) : ret.val[j] = k0 + j - 1
        /\ contents("s") = d0

C12_Witness ==
    /\ Returned("indices")
    /\ k0 = 2
    /\ d0 = <<2, 1, 2>>
    /\ ret.val = <<2, 3, 4>>

\* C13: s owns its backing list.  A call that changes the list s was
\* constructed from, or a slice of s, leaves s as it was, and a call that
\* changes s leaves that list, or that slice, as it was; taking the slice
\* changes nothing in s.
C13_OwnsBackingList ==
    /\ (pc = "returned" /\ op.name \in {"append", "pop"}) =>
        LET other == IF op.who = "s" THEN "t" ELSE "s"
        IN  contents(other) = op.heap[obj(other).data]
    /\ Returned("slice") => contents("s") = op.pre

C13_Witness ==
    /\ Returned("append")
    /\ op.who = "t"
    /\ isinstance_OffsetList(t)
    /\ op.pre = <<1, 2>>
    /\ contents("t") = <<1, 2, 1>>
    /\ contents("s") = <<1, 2>>

\* The constructor call just made: its arguments.
spec0 == op.value.spec
length0 == op.value.length
\* The FlexibleSequence a call was just made on, and its finite length.
flex0 == op.self
n0 == int(op.self.length)

\* C14: a FlexibleSequence made from an ordered sequence (a list, a tuple,
\* a OneIndexedList, another FlexibleSequence), callable or not, is DIRECT;
\* one made from any other callable is CALLABLE; one made from anything
\* else (an int, None, a dict) is CONSTANT.
C14_Classification ==
    (Returned("FlexibleSequence") /\ ret.exc = "none") =>
        /\ s = ret.val
        /\ spec0.cls \in {"list", "tuple", "OneIndexedList", "OffsetList",
                          "FlexibleSequence", "CallableList"}
              => s.definition = "DIRECT"
        /\ spec0.cls = "function" => s.definition = "CALLABLE"
        /\ spec0.cls \in {"int", "NoneType", "dict"} => s.definition = "CONSTANT"

C14_Witness ==
    /\ Returned("FlexibleSequence")
    /\ spec0 = CallableList(<<1, 2>>)
    /\ ret.exc = "none"
    /\ s.definition = "DIRECT"

\* C15: the constructor called with an ordered sequence and an int length
\* fails when the length differs from the length of the sequence, and
\* succeeds when the two are equal.
C15_LengthMismatch ==
    (/\ Returned("FlexibleSequence")
     /\ isinstance_Sequence(spec0)
     /\ length0 # None
     /\ len(spec0).exc = "none") =>
        (ret.exc # "none" <=> len(spec0).val # int(length0))

\* C16: flex[i] on a finite FlexibleSequence of length n raises IndexError
\* when i >= n or i < -n.
C16_OutOfRange ==
    (/\ IntCall("flex_getitem")
     /\ isfinite(flex0.length)
     /\ (op.index.i >= n0 \/ op.index.i < -n0)) =>
        ret.exc = "IndexError"

\* C17: for a CALLABLE FlexibleSequence over f with callable_start_i = c
\* and length n, flex[i] is f(c + i) for 0 <= i < n and f(c + n + i) for
\* -n <= i < 0, and flex == [f(c), ..., f(c + n - 1)] is True.
C17_CallableOffset ==
    /\ (/\ IntCall("flex_getitem")
        /\ flex0.definition = "CALLABLE"
        /\ isfinite(flex0.length)
        /\ -n0 <= op.index.i
        /\ op.index.i < n0) =>
           /\ ret.exc = "none"
           /\ ret.val = apply(flex0.wrapped.f,
                              IF op.index.i >= 0
                              THEN flex0.c_start_i + op.index.i
                              ELSE flex0.c_start_i + n0 + op.index.i)
    /\ (/\ Returned("flex_eq")
        /\ flex0.definition = "CALLABLE"
        /\ isfinite(flex0.length)
        /\ op.value = list([j \in 1..n0 |->
                               apply(flex0.wrapped.f, flex0.c_start_i + j - 1)])) =>
           /\ ret.exc = "none"
           /\ ret.val = TRUE

C17_Witness ==
    /\ IntCall("flex_getitem")
    /\ flex0.wrapped = function("square")
    /\ flex0.c_start_i = 2
    /\ flex0.length = Some(3)
    /\ op.index.i = -1
    /\ ret.val = 16

\* Whether x is, or is a FlexibleSequence made directly from, a
\* OffsetList, whose subscripts are not zero-based.
RECURSIVE over_OffsetList(_)
over_OffsetList(x) ==
    IF x.cls = "FlexibleSequence"
    THEN x.definition = "DIRECT" /\ over_OffsetList(x.wrapped)
    ELSE isinstance_OffsetList(x)

\* The slice just taken returned a sequence equal to the same slice of the
\* list of the elements of the receiver.
SliceOfElements ==
    /\ ret.exc = "none"
    /\ FlexibleSequence__eq__(
           ret.val, list(list_getslice(iter(flex0).val, op.index).val)).val = TRUE

\* C18, as stated: flex[a:b:c] on any finite FlexibleSequence succeeds and
\* equals m[a:b:c], m being the list of its elements.
C18_Original ==
    (SliceCall("flex_getitem") /\ isfinite(flex0.length)) => SliceOfElements

\* C18, amended: flex[a:b:c] on a finite FlexibleSequence that is not
\* DIRECT over an OffsetList succeeds and equals m[a:b:c], m being the
\* list of its elements.
C18_FiniteSlice ==
    (/\ SliceCall("flex_getitem")
     /\ isfinite(flex0.length)
     /\ ~over_OffsetList(flex0)) => SliceOfElements

C18_Witness ==
    /\ SliceCall("flex_getitem")
    /\ flex0.wrapped = function("square")
    /\ flex0.c_start_i = 2
    /\ flex0.length = Some(3)
    /\ op.index = [slice |-> TRUE, start |-> None, stop |-> None, step |-> Some(-2)]
    /\ ret.exc = "none"
    /\ ret.val.wrapped = list(<<16, 4>>)

\* The lengths of the two lists test_access_slice_infinite slices to tell
\* whether the size of a slice depends on the size of the list.
Short == 100
Long == 1000

\* C19: flex[a:b:c] on a CONSTANT FlexibleSequence without a length raises
\* IndexError when the slice selects more of a list of 1000 elements than
\* of a list of 100, and otherwise equals the value repeated as many times
\* as the slice selects of the list of 1000 elements.
C19_UnboundedConstantSlice ==
    (/\ SliceCall("flex_getitem")
     /\ flex0.definition = "CONSTANT"
     /\ isinf(flex0.length)) =>
        IF Len(slice_positions(op.index, Short)) < Len(slice_positions(op.index, Long))
        THEN ret.exc = "IndexError"
        ELSE /\ ret.exc = "none"
             /\ FlexibleSequence__eq__(
                    ret.val,
                    list([j \in 1..Len(slice_positions(op.index, Long)) |->
                             pyvalue(flex0.wrapped)])).val = TRUE

C19_Witness ==
    /\ SliceCall("flex_getitem")
    /\ flex0.wrapped = pyint(1)
    /\ isinf(flex0.length)
    /\ op.index = [slice |-> TRUE, start |-> Some(-3), stop |-> Some(-1), step |-> None]
    /\ ret.exc = "none"
    /\ ret.val.wrapped = list(<<1, 1>>)

\* C20: flex[a:b:c] on a CALLABLE FlexibleSequence without a length, a or
\* b being negative, raises NotImplementedError or IndexError.
C20_NegativeBoundRefused ==
    (/\ SliceCall("flex_getitem")
     /\ flex0.definition = "CALLABLE"
     /\ isinf(flex0.length)
     /\ \/ op.index.start # None /\ int(op.index.start) < 0
        \/ op.index.stop # None /\ int(op.index.stop) < 0) =>
        ret.exc \in {"NotImplementedError", "IndexError"}

\* C21: on a FlexibleSequence without a length, flex[i] of a CALLABLE one
\* over f with callable_start_i = c is f(c + i), f being called once, with
\* c + i, for i >= 0, and raises NotImplementedError, f not being called,
\* for i < 0; flex[i] of a CONSTANT one is its value for every int i.
C21_UnboundedIntegerIndex ==
    (IntCall("flex_getitem") /\ isinf(flex0.length)) =>
        /\ (flex0.definition = "CALLABLE" /\ op.index.i >= 0) =>
              /\ ret.exc = "none"
              /\ ret.val = apply(flex0.wrapped.f, flex0.c_start_i + op.index.i)
              /\ called_with(flex0, op.index.i) = <<flex0.c_start_i + op.index.i>>
        /\ (flex0.definition = "CALLABLE" /\ op.index.i < 0) =>
              /\ ret.exc = "NotImplementedError"
              /\ called_with(flex0, op.index.i) = <<>>
        /\ flex0.definition = "CONSTANT" =>
              /\ ret.exc = "none"
              /\ ret.val = pyvalue(flex0.wrapped)

C21_Witness ==
    /\ IntCall("flex_getitem")
    /\ flex0.wrapped = function("square")
    /\ flex0.c_start_i = 2
    /\ isinf(flex0.length)
    /\ op.index.i = -1
    /\ ret.exc = "NotImplementedError"

\* C22: flex == other, other being None or an int, returns False and does
\* not raise.
C22_NonIterableComparison ==
    (Returned("flex_eq") /\ op.value.cls \in {"NoneType", "int"}) =>
        /\ ret.exc = "none"
        /\ ret.val = FALSE

\* C23: a CONSTANT or CALLABLE FlexibleSequence is made with the length
\* argument n as its length, 0 included, and without a length when there
\* is no length argument; len(flex) is the length of the wrapped sequence
\* for DIRECT, n for CONSTANT or CALLABLE of length n, and raises
\* IndexError for CONSTANT or CALLABLE without a length.
C23_LengthResolution ==
    /\ (/\ Returned("FlexibleSequence")
        /\ ret.exc = "none"
        /\ ~isinstance_Sequence(spec0)) =>
           /\ s.definition \in {"CONSTANT", "CALLABLE"}
           /\ length0 = None => isinf(s.length)
           /\ length0 # None => s.length = Some(int(length0))
    /\ Returned("flex_len") =>
           IF flex0.definition = "DIRECT"
           THEN /\ ret.exc = len(flex0.wrapped).exc
                /\ ret.val = len(flex0.wrapped).val
           ELSE IF isfinite(flex0.length)
           THEN /\ ret.exc = "none"
                /\ ret.val = n0
           ELSE ret.exc = "IndexError"

C23_Witness ==
    /\ Returned("flex_len")
    /\ flex0.wrapped = function("succ")
    /\ flex0.length = Some(0)
    /\ ret.exc = "none"
    /\ ret.val = 0

\* C24: for a finite FlexibleSequence x, FlexibleSequence(x) is made
\* without an exception, is DIRECT, has the length of x, and
\* FlexibleSequence(x) == x is True.
C24_RewrapIdempotent ==
    (/\ Returned("flex_rewrap")
     /\ length0 = None
     /\ isfinite(flex0.length)) =>
        /\ ret.exc = "none"
        /\ ret.val.definition = "DIRECT"
        /\ ret.val.wrapped = flex0
        /\ len(ret.val) = len(flex0)
        /\ len(flex0).exc = "none"
        /\ FlexibleSequence__eq__(ret.val, flex0) = Return(TRUE, <<>>)

C24_Witness ==
    /\ Returned("flex_rewrap")
    /\ length0 = None
    /\ flex0.wrapped = function("square")
    /\ flex0.length = Some(3)
    /\ flex0.c_start_i = 2
    /\ ret.exc = "none"
    /\ iter(ret.val).val = <<4, 9, 16>>

\* The elements flex[0], ..., flex[m - 1] of the FlexibleSequence s.
first(m) == [j \in 1..m |-> FlexibleSequence__getitem__(s, IntIndex(j - 1)).val]
Unwrapped == s.definition \in {"CONSTANT", "CALLABLE"}

\* C25: while a CONSTANT or CALLABLE FlexibleSequence is iterated, the
\* consumer that has received m elements has received flex[0], ...,
\* flex[m - 1] in this order; m stays at most n for one of length n, whose
\* iteration ends by itself only after n elements, and the iteration of
\* one without a length never ends by itself.  The iteration of one of
\* length n comes to an end: the generator is exhausted, or the consumer
\* has left the loop.
C25_Iteration ==
    /\ [](Unwrapped /\ pc # "ready" =>
            /\ Len(received) = t.i
            /\ received = first(t.i)
            /\ isfinite(s.length) => t.i <= int(s.length)
            /\ t.state = "exhausted" => isfinite(s.length) /\ t.i = int(s.length))
    /\ (Unwrapped /\ isfinite(s.length)) ~> (pc = "done")
    /\ (Unwrapped /\ isinf(s.length)) ~>
          (pc = "done" \/ (pc = "iterating" /\ t.i = MaxRequests))

C25_Witness ==
    /\ pc = "iterating"
    /\ s.wrapped = function("square")
    /\ s.c_start_i = 2
    /\ isinf(s.length)
    /\ t.i = MaxRequests
    /\ received = [j \in 1..MaxRequests |-> (j + 1) * (j + 1)]

\* C26: a slice of a OneIndexedList of nonstd.list is a OneIndexedList of
\* nonstd.list, and oil[1:3] == OneIndexedList([1, 2]) is True for
\* oil = OneIndexedList([1, 2, 3]).
C26_SliceIsOneIndexedList ==
    /\ (SliceCall("oil_getitem") /\ ret.exc = "none") =>
           ret.val.cls = "nonstd.list.OneIndexedList"
    /\ (/\ SliceCall("oil_slice_eq")
        /\ flex0 = nonstd_list_OneIndexedList(<<1, 2, 1>>)
        /\ op.index = [slice |-> TRUE, start |-> Some(1), stop |-> Some(3), step |-> None]
        /\ op.value = nonstd_list_OneIndexedList(<<1, 2>>)) =>
           /\ ret.exc = "none"
           /\ ret.val = TRUE

\* The positions range(a, b, step) of the slice just taken, an absent b
\* standing for -1 and an absent step for 1.
unclamped ==
    range(int(op.index.start),
          IF op.index.stop = None THEN -1 ELSE int(op.index.stop),
          IF op.index.step = None THEN 1 ELSE int(op.index.step))

\* C27: on a CALLABLE FlexibleSequence over f without a length, with
\* callable_start_i = c, flex[a:b:step] with a >= 0 and b >= 0, and
\* flex[a::step] with a >= 0 and step < 0, succeed and hold f(c + i) for
\* i in range(a, b, step), b being -1 when absent, in this order.
C27_UnclampedPositions ==
    (/\ SliceCall("flex_getitem")
     /\ flex0.definition = "CALLABLE"
     /\ isinf(flex0.length)
     /\ op.index.start # None
     /\ int(op.index.start) >= 0
     /\ IF op.index.stop = None
        THEN op.index.step # None /\ int(op.index.step) < 0
        ELSE int(op.index.stop) >= 0) =>
        /\ ret.exc = "none"
        /\ iter(ret.val) =
              Return([j \in 1..Len(unclamped) |->
                         apply(flex0.wrapped.f, flex0.c_start_i + unclamped[j])], <<>>)

C27_Witness ==
    /\ SliceCall("flex_getitem")
    /\ flex0.wrapped = function("square")
    /\ flex0.c_start_i = 2
    /\ isinf(flex0.length)
    /\ op.index = [slice |-> TRUE, start |-> Some(3), stop |-> Some(0), step |-> Some(-2)]
    /\ ret.exc = "none"
    /\ ret.val.wrapped = list(<<25, 9>>)

\* C28: FlexibleSequence(x, length), x being a FlexibleSequence without a
\* length, raises IndexError for every length argument, None included, and
\* every DIRECT FlexibleSequence has a finite length.
C28_NoUnboundedDirect ==
    /\ (/\ Returned("flex_rewrap") \/ Returned("FlexibleSequence")
        /\ spec0.cls = "FlexibleSequence"
        /\ isinf(spec0.length)) =>
           ret.exc = "IndexError"
    /\ (s.cls = "FlexibleSequence" /\ s.definition = "DIRECT") => isfinite(s.length)
    /\ (/\ Returned("flex_rewrap") \/ Returned("FlexibleSequence")
        /\ ret.exc = "none"
        /\ ret.val.definition = "DIRECT") =>
           isfinite(ret.val.length)

C28_Witness ==
    /\ Returned("flex_rewrap")
    /\ flex0.wrapped = function("square")
    /\ isinf(flex0.length)
    /\ length0 = Some(2)
    /\ ret.exc = "IndexError"

\* C29: s + other and s * n, s being an OffsetList with start_i = k, are
\* OffsetLists with start_i = k.
C29_NewContainersKeepStartI ==
    (Returned("add") \/ Returned("mul")) =>
        /\ ret.exc = "none"
        /\ isinstance_OffsetList(ret.val)
        /\ ret.val.start_i = k0

\* C30: when a with block of a Tee is left, sys.stdout and sys.stderr are
\* what they were when the block was entered, and a write to sys.stdout or
\* sys.stderr that succeeds inside with blocks of Tees whose files are
\* open is written to the file of each of these Tees.
C30_ExitRestoresEnclosing ==
    /\ op.name = "__exit__" =>
           /\ s.stdout = op.value.stdout
           /\ s.stderr = op.value.stderr
    /\ (op.name = "write" /\ ret.exc = "none") =>
           \A j \in DOMAIN t.open :
               ~op.heap.files[t.open[j].tee].closed =>
                   Len(heap.files[t.open[j].tee].data)
                       > Len(op.heap.files[t.open[j].tee].data)
====
